---------------------------- MODULE Spec2Model ----------------------------
(***************************************************************************)
(* ctxcat: path resolution and filtering (internal/processor/processor.go) *)
(*                                                                         *)
(* A path string is a sequence of segments: <<>> is ".", <<"d","a">> is    *)
(* "d/a", <<"..","o">> is "../o".  An absolute path is the sequence of its *)
(* components below the filesystem root: <<>> is "/", <<"w">> is "/w".     *)
(***************************************************************************)
EXTENDS Integers, Sequences, FiniteSets, TLC

VARIABLES
    config,               \* *Config: NoRecursive, NoGitignore, IgnoreFiles, ExcludeGlobs, NoBinaryCheck
    gitignores,           \* the filesystem: absolute directory -> lines of its .gitignore, or Absent
    customIgnoreMatcher,  \* FileProcessor.customIgnoreMatcher (Nil or compiled patterns)
    ignoreMatcherCache,   \* FileProcessor.ignoreMatcherCache: directory -> NoEntry | Nil | patterns
    compiles,             \* directory -> number of times its .gitignore was read and compiled
    opened,               \* files opened by isBinary so far
    pc,                   \* position in ProcessPaths
    nIn,                  \* number of input paths consumed by the first loop
    recursiveInput,       \* some consumed input pattern contained "**"
    expandedPaths,        \* ProcessPaths: expandedPaths
    todo,                 \* candidates the range loop has not yet visited
    cur,                  \* candidate being walked (WalkDir's root argument)
    stack,                \* WalkDir: entries still to be handed to the callback, in visit order
    pruned,               \* directories for which the callback returned SkipDir
    finalFiles,           \* ProcessPaths: finalFiles
    result,               \* ProcessPaths: returned files (as a set)
    last,                 \* the most recent shouldInclude / shouldSkipDir call and what it did
    mu,                   \* FileProcessor.mu: Free or the caller holding it
    callers,              \* concurrent callers of getGitignoreMatcher: their position and locals
    unreadable,           \* the filesystem: directories whose entries cannot be listed
    paths,                \* ProcessPaths: the paths argument, when the caller fixes the list
    runs,                 \* earlier ProcessPaths calls on this processor: their paths and result
    args,                 \* RunE: the command line's path arguments
    stdin,                \* os.Stdin: a terminal, or a pipe holding lines
    template,             \* RunE: the --template flag
    files,                \* RunE: files, the slice ProcessPaths returned
    fileIndex,            \* RunE: i, the index of the output loop
    out,                  \* the bytes written to the output so far
    exit,                 \* how RunE ended: "running", "ok" or "error"
    query                 \* an isGitignored call in progress: its locals and where it stands

vars == <<config, gitignores, customIgnoreMatcher, ignoreMatcherCache, compiles, opened,
          pc, nIn, recursiveInput, expandedPaths, todo, cur, stack, pruned, finalFiles,
          result, last, mu, callers, unreadable, paths, runs, args, stdin, template,
          files, fileIndex, out, exit, query>>

----------------------------------------------------------------------------
(* Bounds of the model *)

MaxDepth == 2       \* depth of the chain of directories d, d/d, ... below the working directory
MaxInputs == 2      \* number of input paths handed to ProcessPaths
NumCallers == 2     \* concurrent callers of getGitignoreMatcher

(* Program constant: isBinary's buffer, make([]byte, 1024) *)
BufferSize == 1024

----------------------------------------------------------------------------
(* Paths (path/filepath) *)

Cwd == <<"w">>

IsPrefix(p, q) == Len(p) <= Len(q) /\ SubSeq(q, 1, Len(p)) = p

RECURSIVE Clean(_, _)
\* filepath.Clean of an absolute path: acc is the cleaned prefix, rest what is left
Clean(acc, rest) ==
    IF rest = <<>> THEN acc
    ELSE IF Head(rest) = ".."
         THEN Clean(IF acc = <<>> THEN <<>> ELSE SubSeq(acc, 1, Len(acc) - 1), Tail(rest))
         ELSE Clean(Append(acc, Head(rest)), Tail(rest))

\* filepath.Abs(path)
Abs(path) == Clean(<<>>, Cwd \o path)

\* filepath.Dir of an absolute path; the root is its own parent
Dir(abs) == IF abs = <<>> THEN <<>> ELSE SubSeq(abs, 1, Len(abs) - 1)

\* Rel gone wrong: the path is made relative to the working directory, not to base
RelToCwd(base, target) ==
    IF base = target THEN <<".">>
    ELSE IF IsPrefix(Cwd, target) /\ target # Cwd
         THEN SubSeq(target, Len(Cwd) + 1, Len(target))
         ELSE target

\* filepath.Rel(base, target) for a base that is an ancestor of target, as the
\* segments the matcher sees: "." when they are equal
Rel(base, target) ==
    IF base = target THEN <<".">> ELSE SubSeq(target, Len(base) + 1, Len(target))

\* filepath.Rel(".", path): a relative path is returned cleaned, as it is
RelCwd(path) == IF path = <<>> THEN <<".">> ELSE path

\* filepath.Join(dir, name)
Join(dir, name) == Append(dir, name)

\* strings.Contains(path, "**")
ContainsDoubleStar(path) == \E i \in 1..Len(path) : path[i] = "**"

\* the bytes of a name
NameBytes(name) ==
    CASE name = "a" -> <<97>>
      [] name = "b" -> <<98>>
      [] name = "c" -> <<99>>
      [] name = "d" -> <<100>>
      [] name = "o" -> <<111>>
      [] name = "u" -> <<117>>
      [] name = "w" -> <<119>>
      [] name = ".." -> <<46, 46>>
      [] name = ".gitignore" -> <<46, 103, 105, 116, 105, 103, 110, 111, 114, 101>>
      [] OTHER -> <<42>>

RECURSIVE PathBytes(_)
\* the bytes of a path string: its names joined by "/" (47); "." for the empty path
PathBytes(path) ==
    IF path = <<>> THEN <<46>>
    ELSE IF Len(path) = 1 THEN NameBytes(path[1])
    ELSE NameBytes(path[1]) \o <<47>> \o PathBytes(Tail(path))

RECURSIVE BytesLess(_, _)
\* Go's < on strings: bytewise, a proper prefix first
BytesLess(x, y) ==
    IF y = <<>> THEN FALSE
    ELSE IF x = <<>> THEN TRUE
    ELSE IF Head(x) # Head(y) THEN Head(x) < Head(y)
    ELSE BytesLess(Tail(x), Tail(y))

StringLess(p, q) == BytesLess(PathBytes(p), PathBytes(q))

\* sort.Strings gone wrong: the slice is left as it is
SortStringsNoop(slice) == slice

RECURSIVE Insert(_, _)
\* x put into a sorted slice, before the first element that is not smaller
Insert(x, sorted) ==
    IF sorted = <<>> THEN <<x>>
    ELSE IF StringLess(Head(sorted), x) THEN <<Head(sorted)>> \o Insert(x, Tail(sorted))
    ELSE <<x>> \o sorted

RECURSIVE SortStrings(_)
\* sort.Strings(slice): the slice's elements in increasing order
SortStrings(slice) ==
    IF slice = <<>> THEN <<>> ELSE Insert(Head(slice), SortStrings(Tail(slice)))

----------------------------------------------------------------------------
(* The filesystem the run sees.  Below the working directory /w lies a     *)
(* chain of directories d, d/d, ...; /o lies outside the working directory.*)

DirChain(k) == [i \in 1..k |-> "d"]

AbsDirs == {<<>>, <<"o">>} \cup {Cwd \o DirChain(k) : k \in 0..MaxDepth}

\* directories that may hold a .gitignore in the model
IgnoreDirs == {<<>>, Cwd, Cwd \o <<"d">>}

\* regular files other than the .gitignore files: name -> depths of the chain that hold it
FileDepths(name) ==
    CASE name = "a" -> 0..MaxDepth
      [] name = "b" -> {0, 1}
      [] name = "c" -> {0}
      [] name = "u" -> {1}
      [] OTHER -> {}

IsDir(abs) == abs \in AbsDirs

IsFile(abs) ==
    \/ abs = <<"o", "a">>
    \/ /\ Len(abs) >= 2
       /\ Dir(abs) \in {Cwd \o DirChain(k) : k \in 0..MaxDepth}
       /\ (Len(abs) - 2) \in FileDepths(abs[Len(abs)])
    \/ /\ abs # <<>>
       /\ abs[Len(abs)] = ".gitignore"
       /\ Dir(abs) \in IgnoreDirs
       /\ gitignores[Dir(abs)].present

Exists(abs) == IsDir(abs) \/ IsFile(abs)

\* a file's bytes, as far as isBinary can tell them apart: its size, the offsets
\* holding a zero byte, and whether os.Open and Read succeed
Content(abs) ==
    LET n == abs[Len(abs)]
        depth == Len(abs) - 2
    IN  CASE n = "a" /\ depth = 1 -> [size |-> 0, zeros |-> {}, readable |-> TRUE]
          [] n = "b" /\ depth = 0 -> [size |-> 2000, zeros |-> {BufferSize - 1}, readable |-> TRUE]
          [] n = "b" /\ depth # 0 -> [size |-> 14, zeros |-> {6}, readable |-> TRUE]
          [] n = "c" -> [size |-> 2000, zeros |-> {BufferSize}, readable |-> TRUE]
          [] n = "u" -> [size |-> 3, zeros |-> {1}, readable |-> FALSE]
          [] OTHER -> [size |-> 12, zeros |-> {}, readable |-> TRUE]

\* os.ReadDir order (lexical by name)
NameOrder == <<".gitignore", "a", "b", "c", "d", "o", "u", "w">>

\* the entries of a directory in the order WalkDir visits them
ReadDir(abs) ==
    LET present == {i \in 1..Len(NameOrder) : Exists(Join(abs, NameOrder[i]))}
        RECURSIVE Build(_)
        Build(i) == IF i > Len(NameOrder) THEN <<>>
                    ELSE (IF i \in present THEN <<NameOrder[i]>> ELSE <<>>) \o Build(i + 1)
    IN  Build(1)


AllNames == {NameOrder[i] : i \in 1..Len(NameOrder)}

\* every existing entry, as the path string the program sees: relative to the
\* working directory, through ".." when it lies outside
PathString(abs) ==
    IF IsPrefix(Cwd, abs) THEN SubSeq(abs, Len(Cwd) + 1, Len(abs)) ELSE <<"..">> \o abs

Universe ==
    {PathString(abs) : abs \in {a \in AbsDirs \cup {Join(d, n) : d \in AbsDirs, n \in AllNames} :
                                  Exists(a)}}

----------------------------------------------------------------------------
(* github.com/bmatcuk/doublestar/v4.  A pattern is a sequence of segments: *)
(* a name, "*" (one segment), "**" (zero or more segments) or "[" (a       *)
(* character class that is never closed: malformed).                       *)

ValidatePattern(pattern) == \A i \in 1..Len(pattern) : pattern[i] # "["

RECURSIVE DoMatch(_, _, _)
\* onDisk: the name comes from directory listings, where no wildcard meets ".."
DoMatch(pattern, name, onDisk) ==
    IF pattern = <<>> THEN name = <<>>
    ELSE IF Head(pattern) = "**"
         THEN \/ DoMatch(Tail(pattern), name, onDisk)
              \/ /\ name # <<>>
                 /\ ~(onDisk /\ Head(name) = "..")
                 /\ DoMatch(pattern, Tail(name), onDisk)
    ELSE IF Head(pattern) = "*"
         THEN /\ name # <<>>
              /\ ~(onDisk /\ Head(name) = "..")
              /\ DoMatch(Tail(pattern), Tail(name), onDisk)
    ELSE /\ name # <<>>
         /\ Head(name) = Head(pattern)
         /\ DoMatch(Tail(pattern), Tail(name), onDisk)

\* doublestar.PathMatch(pattern, name): (matched, err)
PathMatch(pattern, name) ==
    IF ~ValidatePattern(pattern) THEN [match |-> FALSE, err |-> TRUE]
    ELSE [match |-> DoMatch(pattern, name, FALSE), err |-> FALSE]

\* doublestar.FilepathGlob(pattern): (matches, err)
FilepathGlob(pattern) ==
    IF ~ValidatePattern(pattern) THEN [matches |-> {}, err |-> TRUE]
    ELSE [matches |-> {p \in Universe : DoMatch(pattern, p, TRUE)}, err |-> FALSE]

----------------------------------------------------------------------------
(* github.com/sabhiram/go-gitignore.  A line of an ignore file is a        *)
(* comment (or blank) or a pattern over one name: "n", "/n", "n/", "/n/",  *)
(* each possibly negated with "!"; the name "*" stands for the wildcard.   *)

Comment == [kind |-> "comment", neg |-> FALSE, anch |-> FALSE, dir |-> FALSE, name |-> ""]
Line(name) == [kind |-> "pattern", neg |-> FALSE, anch |-> FALSE, dir |-> FALSE, name |-> name]
Anchored(name) == [Line(name) EXCEPT !.anch = TRUE]
DirOnly(name) == [Line(name) EXCEPT !.dir = TRUE]
Negated(name) == [Line(name) EXCEPT !.neg = TRUE]

\* a file on disk, by its lines; Absent when it cannot be opened
Absent == [present |-> FALSE, lines |-> <<>>]
File(lines) == [present |-> TRUE, lines |-> lines]

\* a *ignore.GitIgnore: the nil pointer, or the compiled patterns
Nil == [nil |-> TRUE, patterns |-> <<>>]

\* ignore.CompileIgnoreLines: comments and blank lines yield no pattern
CompileIgnoreLines(lines) ==
    [nil |-> FALSE, patterns |-> SelectSeq(lines, LAMBDA l : l.kind = "pattern")]

\* the regular expression getPatternFromLine builds, matched against f:
\*   n   -> ^(|.*/)n(|/.*)$     /n  -> ^(|/)n(|/.*)$
\*   n/  -> ^(|.*/)n/(|.*)$     /n/ -> ^(|/)n/(|.*)$      * -> [^/]*
PatternMatches(ip, f) ==
    \E i \in 1..Len(f) :
        /\ ip.name = "*" \/ f[i] = ip.name
        /\ ip.anch => i = 1
        /\ ip.dir => i < Len(f)

RECURSIVE MatchesFrom(_, _, _)
MatchesFrom(patterns, f, matchesPath) ==
    IF patterns = <<>> THEN matchesPath
    ELSE LET ip == Head(patterns)
         IN  MatchesFrom(Tail(patterns), f,
                 IF PatternMatches(ip, f)
                 THEN (IF ~ip.neg THEN TRUE ELSE FALSE)
                 ELSE matchesPath)

\* (*GitIgnore).MatchesPath(f): the last matching pattern decides, a negated
\* one un-ignoring what an earlier one ignored
MatchesPath(matcher, f) == MatchesFrom(matcher.patterns, f, FALSE)

----------------------------------------------------------------------------
(* FileProcessor: the filter.  An operator that touches the matcher cache  *)
(* or opens a file takes the processor's mutable state st = [cache,        *)
(* compiles, opened] and returns it updated; evals lists the matcher       *)
(* evaluations a call performed.                                           *)

\* the lines of dir's .gitignore, or Absent
GitignoreFile(dir) == IF dir \in IgnoreDirs THEN gitignores[dir] ELSE Absent

\* ignore.CompileIgnoreFile(filepath.Join(dir, ".gitignore")): (matcher, err)
CompileIgnoreFile(dir) ==
    IF ~GitignoreFile(dir).present THEN [matcher |-> Nil, err |-> TRUE]
    ELSE [matcher |-> CompileIgnoreLines(GitignoreFile(dir).lines), err |-> FALSE]

\* an entry of the map ignoreMatcherCache: none, or the matcher stored (nil or compiled)
NoEntry == [present |-> FALSE, matcher |-> Nil]
Entry(matcher) == [present |-> TRUE, matcher |-> matcher]

\* getGitignoreMatcher gone wrong: a cache hit reports that the directory has no .gitignore
GetGitignoreMatcherHitIsNil(st, dir) ==
    IF st.cache[dir].present
    THEN [matcher |-> Nil, ok |-> FALSE, st |-> st]
    ELSE LET c == CompileIgnoreFile(dir)
             st2 == [st EXCEPT !.cache[dir] = Entry(c.matcher), !.compiles[dir] = @ + 1]
         IN  [matcher |-> c.matcher, ok |-> ~c.err, st |-> st2]

\* getGitignoreMatcher(dir), run under p.mu: (matcher, ok) and the state after it
GetGitignoreMatcher(st, dir) ==
    IF st.cache[dir].present
    THEN [matcher |-> st.cache[dir].matcher, ok |-> ~st.cache[dir].matcher.nil, st |-> st]
    ELSE LET c == CompileIgnoreFile(dir)
             st2 == [st EXCEPT !.cache[dir] = Entry(c.matcher), !.compiles[dir] = @ + 1]
         IN  [matcher |-> c.matcher, ok |-> ~c.err, st |-> st2]

RECURSIVE GitignoreLoopNearest(_, _, _, _)
\* the loop gone wrong: the nearest directory that has a .gitignore decides alone
GitignoreLoopNearest(st, currentDir, absPath, evals) ==
    LET g == GetGitignoreMatcher(st, currentDir)
        relativePath == Rel(currentDir, absPath)
        ev == IF g.ok
              THEN evals \cup {[kind |-> "gitignore", base |-> currentDir,
                                target |-> absPath, rel |-> relativePath]}
              ELSE evals
        parentDir == Dir(currentDir)
    IN  IF g.ok
        THEN [ignored |-> MatchesPath(g.matcher, relativePath), st |-> g.st, evals |-> ev]
        ELSE IF parentDir = currentDir
             THEN [ignored |-> FALSE, st |-> g.st, evals |-> ev]
             ELSE GitignoreLoopNearest(g.st, parentDir, absPath, ev)

RECURSIVE GitignoreLoop(_, _, _, _)
\* the for loop of isGitignored, from currentDir upwards
GitignoreLoop(st, currentDir, absPath, evals) ==
    LET g == GetGitignoreMatcher(st, currentDir)
        relativePath == Rel(currentDir, absPath)
        ev == IF g.ok
              THEN evals \cup {[kind |-> "gitignore", base |-> currentDir,
                                target |-> absPath, rel |-> relativePath]}
              ELSE evals
        parentDir == Dir(currentDir)
    IN  IF g.ok /\ MatchesPath(g.matcher, relativePath)
        THEN [ignored |-> TRUE, st |-> g.st, evals |-> ev]
        ELSE IF parentDir = currentDir
             THEN [ignored |-> FALSE, st |-> g.st, evals |-> ev]
             ELSE GitignoreLoop(g.st, parentDir, absPath, ev)

\* the directory isGitignored starts from
StartDir(absPath) == IF Exists(absPath) /\ ~IsDir(absPath) THEN Dir(absPath) ELSE absPath

\* isGitignored gone wrong: config.NoGitignore is not consulted
IsGitignoredAlways(st, path) == GitignoreLoop(st, StartDir(Abs(path)), Abs(path), {})

\* isGitignored(path)
IsGitignored(st, path) ==
    IF config.NoGitignore
    THEN [ignored |-> FALSE, st |-> st, evals |-> {}]
    ELSE GitignoreLoop(st, StartDir(Abs(path)), Abs(path), {})

\* isExcluded gone wrong: a pattern that fails to parse ends the loop
IsExcludedStopAtError(path) ==
    \E i \in 1..Len(config.ExcludeGlobs) :
        /\ \A j \in 1..i : ~PathMatch(config.ExcludeGlobs[j], path).err
        /\ PathMatch(config.ExcludeGlobs[i], path).match

\* isExcluded(path)
IsExcluded(path) ==
    \E i \in 1..Len(config.ExcludeGlobs) :
        LET m == PathMatch(config.ExcludeGlobs[i], path)
        IN  ~m.err /\ m.match

\* shouldSkipDir gone wrong: the .gitignore stage is evaluated before the verdict of the
\* first two stages is looked at
ShouldSkipDirEager(st, path) ==
    LET g == IsGitignored(st, path)
        relPath == RelCwd(path)
        ev == IF ~customIgnoreMatcher.nil
              THEN {[kind |-> "custom", base |-> Cwd, target |-> Abs(path), rel |-> relPath]}
              ELSE {}
    IN  IF IsExcluded(path)
        THEN [skip |-> TRUE, stage |-> 1, st |-> g.st, evals |-> {}, gitCalled |-> FALSE,
              ignored |-> FALSE]
        ELSE IF ~customIgnoreMatcher.nil /\ MatchesPath(customIgnoreMatcher, relPath)
             THEN [skip |-> TRUE, stage |-> 2, st |-> g.st, evals |-> ev, gitCalled |-> FALSE,
                   ignored |-> FALSE]
             ELSE [skip |-> g.ignored, stage |-> IF g.ignored THEN 3 ELSE 0,
                   st |-> g.st, evals |-> ev \cup g.evals, gitCalled |-> TRUE,
                   ignored |-> g.ignored]

\* shouldSkipDir(path); stage is the precedence that excluded the path, 0 when none did
ShouldSkipDir(st, path) ==
    IF IsExcluded(path)
    THEN [skip |-> TRUE, stage |-> 1, st |-> st, evals |-> {}, gitCalled |-> FALSE,
          ignored |-> FALSE]
    ELSE LET relPath == RelCwd(path)
             ev == IF ~customIgnoreMatcher.nil
                   THEN {[kind |-> "custom", base |-> Cwd, target |-> Abs(path), rel |-> relPath]}
                   ELSE {}
         IN  IF ~customIgnoreMatcher.nil /\ MatchesPath(customIgnoreMatcher, relPath)
             THEN [skip |-> TRUE, stage |-> 2, st |-> st, evals |-> ev, gitCalled |-> FALSE,
                   ignored |-> FALSE]
             ELSE LET g == IsGitignored(st, path)
                  IN  [skip |-> g.ignored, stage |-> IF g.ignored THEN 3 ELSE 0,
                       st |-> g.st, evals |-> ev \cup g.evals, gitCalled |-> TRUE,
                       ignored |-> g.ignored]

\* isBinary gone wrong: the whole file is searched, not the first buffer
IsBinaryWholeFile(path) ==
    LET file == Content(Abs(path))
    IN  IF ~file.readable THEN FALSE
        ELSE \E z \in file.zeros : z < file.size

\* isBinary(path): a zero byte among the bytes one Read into the buffer returns
IsBinary(path) ==
    LET file == Content(Abs(path))
        n == IF file.size < BufferSize THEN file.size ELSE BufferSize
    IN  IF ~file.readable THEN FALSE
        ELSE \E z \in file.zeros : z < n

\* shouldInclude gone wrong: config.NoBinaryCheck is not consulted
ShouldIncludeAlwaysChecking(st, path) ==
    LET s == ShouldSkipDir(st, path)
    IN  IF s.skip
        THEN [include |-> FALSE, stage |-> s.stage, st |-> s.st, evals |-> s.evals,
              gitCalled |-> s.gitCalled, ignored |-> s.ignored]
        ELSE [include |-> ~IsBinary(path), stage |-> IF IsBinary(path) THEN 4 ELSE 0,
              st |-> [s.st EXCEPT !.opened = @ \cup {path}], evals |-> s.evals,
              gitCalled |-> s.gitCalled, ignored |-> s.ignored]

\* shouldInclude(path)
ShouldInclude(st, path) ==
    LET s == ShouldSkipDir(st, path)
    IN  IF s.skip
        THEN [include |-> FALSE, stage |-> s.stage, st |-> s.st, evals |-> s.evals,
              gitCalled |-> s.gitCalled, ignored |-> s.ignored]
        ELSE IF ~config.NoBinaryCheck
             THEN [include |-> ~IsBinary(path), stage |-> IF IsBinary(path) THEN 4 ELSE 0,
                   st |-> [s.st EXCEPT !.opened = @ \cup {path}], evals |-> s.evals,
                   gitCalled |-> s.gitCalled, ignored |-> s.ignored]
             ELSE [include |-> TRUE, stage |-> 0, st |-> s.st, evals |-> s.evals,
                   gitCalled |-> s.gitCalled, ignored |-> s.ignored]

\* the processor's mutable state, and the record of the call just made
State == [cache |-> ignoreMatcherCache, compiles |-> compiles, opened |-> opened]

Called(op, path, r, verdict) ==
    [op |-> op, path |-> path, excluded |-> verdict, stage |-> r.stage,
     evals |-> r.evals, gitCalled |-> r.gitCalled, ignored |-> r.ignored]

NoCall == [op |-> "none", path |-> <<>>, excluded |-> FALSE, stage |-> 0,
           evals |-> {}, gitCalled |-> FALSE, ignored |-> FALSE]

----------------------------------------------------------------------------
(* New(config) *)

\* the custom ignore files of the model: name -> its lines, Absent when os.Open fails
IgnoreFileLines(file) ==
    CASE file = "i1" -> File(<<Comment>>)
      [] file = "i2" -> File(<<Line("d"), Negated("a"), Line("o")>>)
      [] OTHER -> Absent

RECURSIVE AllPatternsStopAtError(_)
\* the loop gone wrong: the first file that cannot be opened ends it (break, not continue)
AllPatternsStopAtError(ignoreFiles) ==
    IF ignoreFiles = <<>> THEN <<>>
    ELSE IF ~IgnoreFileLines(Head(ignoreFiles)).present THEN <<>>
    ELSE IgnoreFileLines(Head(ignoreFiles)).lines \o AllPatternsStopAtError(Tail(ignoreFiles))

RECURSIVE AllPatterns(_)
\* the loop over config.IgnoreFiles: a file that cannot be opened is skipped
AllPatterns(ignoreFiles) ==
    IF ignoreFiles = <<>> THEN <<>>
    ELSE (IF ~IgnoreFileLines(Head(ignoreFiles)).present THEN <<>>
          ELSE IgnoreFileLines(Head(ignoreFiles)).lines)
         \o AllPatterns(Tail(ignoreFiles))

\* p.customIgnoreMatcher after New
New(cfg) ==
    IF Len(cfg.IgnoreFiles) > 0 /\ Len(AllPatterns(cfg.IgnoreFiles)) > 0
    THEN CompileIgnoreLines(AllPatterns(cfg.IgnoreFiles))
    ELSE Nil

----------------------------------------------------------------------------
(* The configurations, filesystems and inputs the model ranges over *)

ExcludeChoices == {<<>>, << <<"[">>, <<"d">>, <<"**", "b">> >>}

IgnoreFileChoices == {<<>>, <<"ix", "i2">>}

RootGitignores == {Absent, File(<<Comment, Line("c")>>)}
CwdGitignores == {Absent, File(<<Comment, Line("b"), Line("d"), Negated("a")>>)}
SubGitignores == {Absent, File(<<Negated("b"), Anchored("a"), DirOnly("d")>>)}

InputPatterns == {<<>>, <<"d">>, <<"d", "a">>, <<"**", "b">>, <<"..", "o">>, <<"[">>}

Configs ==
    [NoRecursive : BOOLEAN, NoGitignore : BOOLEAN, NoBinaryCheck : BOOLEAN,
     IgnoreFiles : IgnoreFileChoices, ExcludeGlobs : ExcludeChoices]

\* os.Stdin: a character device (terminal), or a pipe or file holding lines
\* (err: the scanner hits a read error)
Terminal == [piped |-> FALSE, lines |-> <<>>, err |-> FALSE]
Piped(lines) == [piped |-> TRUE, lines |-> lines, err |-> FALSE]
BrokenPipe == [piped |-> TRUE, lines |-> <<>>, err |-> TRUE]

\* a line of stdin after strings.TrimSpace: empty, or a path
BlankLine == [blank |-> TRUE, path |-> <<>>]
PathLine(path) == [blank |-> FALSE, path |-> path]

\* sync.Mutex: its zero value is unlocked; a locked mutex is held by one caller
Free == 0

Callers == 1..NumCallers

\* a caller of getGitignoreMatcher: where it stands, its argument, its locals
\* (matcher, ok) and whether it holds them as the call's return values
IdleCaller == [pc |-> "idle", dir |-> <<>>, matcher |-> Nil, ok |-> FALSE, returned |-> FALSE]

\* no isGitignored call is under way
NoQuery ==
    [pc |-> "idle", absPath |-> <<>>, currentDir |-> <<>>, visited |-> <<>>, ret |-> FALSE,
     before |-> [cache |-> [d \in AbsDirs |-> NoEntry], compiles |-> [d \in AbsDirs |-> 0]]]

\* the state New leaves, for any configuration and filesystem
InitProcessor ==
    /\ config \in Configs
    /\ \E r \in RootGitignores, c \in CwdGitignores, s \in SubGitignores :
           gitignores = [d \in IgnoreDirs |-> IF d = <<>> THEN r ELSE IF d = Cwd THEN c ELSE s]
    /\ customIgnoreMatcher = New(config)
    /\ ignoreMatcherCache = [d \in AbsDirs |-> NoEntry]
    /\ compiles = [d \in AbsDirs |-> 0]
    /\ opened = {}
    /\ mu = Free
    /\ callers = [c \in Callers |-> IdleCaller]
    /\ query = NoQuery

\* no ProcessPaths call has been made, and none is under way
NoRun ==
    /\ nIn = 0
    /\ recursiveInput = FALSE
    /\ expandedPaths = {}
    /\ todo = {}
    /\ cur = <<>>
    /\ stack = <<>>
    /\ pruned = {}
    /\ finalFiles = {}
    /\ result = {}
    /\ last = NoCall

\* the processor is used on its own: there is no command around it
NoCmd ==
    /\ args = <<>>
    /\ stdin = Terminal
    /\ template = <<>>
    /\ files = <<>>
    /\ fileIndex = 0
    /\ out = <<>>
    /\ exit = "running"

Init ==
    /\ InitProcessor
    /\ unreadable = {}
    /\ paths = <<>>
    /\ runs = <<>>
    /\ NoCmd
    /\ pc = "expand"
    /\ NoRun

----------------------------------------------------------------------------
(* ProcessPaths(paths) *)

processorVars == <<config, gitignores, customIgnoreMatcher, unreadable>>
callerVars == <<mu, callers, query>>
runVars == <<paths, runs>>
cmdVars == <<args, stdin, template, files, fileIndex, out, exit>>
filterVars == <<ignoreMatcherCache, compiles, opened, last>>

\* the filter ran: its state and the record of the call
Filtered(op, path, r, verdict) ==
    /\ ignoreMatcherCache' = r.st.cache
    /\ compiles' = r.st.compiles
    /\ opened' = r.st.opened
    /\ last' = Called(op, path, r, verdict)

\* first loop, one input: doublestar.FilepathGlob(path) succeeds
ExpandPath(path) ==
    /\ pc = "expand"
    /\ nIn < MaxInputs
    /\ ~FilepathGlob(path).err
    /\ expandedPaths' = expandedPaths \cup FilepathGlob(path).matches
    /\ nIn' = nIn + 1
    /\ recursiveInput' = (recursiveInput \/ ContainsDoubleStar(path))
    /\ UNCHANGED <<processorVars, callerVars, runVars, cmdVars, filterVars, pc, todo, cur, stack, pruned,
                   finalFiles, result>>

\* the first loop gone wrong: an invalid pattern ends the expansion (break, not continue)
InvalidPatternBreaks(path) ==
    /\ pc = "expand"
    /\ nIn < MaxInputs
    /\ FilepathGlob(path).err
    /\ nIn' = MaxInputs
    /\ UNCHANGED <<processorVars, callerVars, runVars, cmdVars, filterVars, pc, recursiveInput,
                   expandedPaths, todo, cur, stack, pruned, finalFiles, result>>

\* first loop, one input: invalid glob pattern, warning and continue
InvalidPattern(path) ==
    /\ pc = "expand"
    /\ nIn < MaxInputs
    /\ FilepathGlob(path).err
    /\ nIn' = nIn + 1
    /\ UNCHANGED <<processorVars, callerVars, runVars, cmdVars, filterVars, pc, recursiveInput, expandedPaths,
                   todo, cur, stack, pruned, finalFiles, result>>

\* the first loop ends; the second ranges over expandedPaths in map order
StartRange ==
    /\ pc = "expand"
    /\ pc' = "range"
    /\ todo' = expandedPaths
    /\ UNCHANGED <<processorVars, callerVars, runVars, cmdVars, filterVars, nIn, recursiveInput, expandedPaths,
                   cur, stack, pruned, finalFiles, result>>

\* the file branch gone wrong: a file named as a candidate is kept unfiltered
RangeFileUnfiltered(path) ==
    /\ pc = "range"
    /\ path \in todo
    /\ ~IsDir(Abs(path))
    /\ finalFiles' = finalFiles \cup {path}
    /\ todo' = todo \ {path}
    /\ UNCHANGED <<processorVars, callerVars, runVars, cmdVars, filterVars, pc, nIn, recursiveInput,
                   expandedPaths, cur, stack, pruned, result>>

\* a candidate that is a file: shouldInclude decides
RangeFile(path) ==
    /\ pc = "range"
    /\ path \in todo
    /\ ~IsDir(Abs(path))
    /\ LET r == ShouldInclude(State, path)
       IN  /\ Filtered("shouldInclude", path, r, ~r.include)
           /\ finalFiles' = IF r.include THEN finalFiles \cup {path} ELSE finalFiles
    /\ todo' = todo \ {path}
    /\ UNCHANGED <<processorVars, callerVars, runVars, cmdVars, pc, nIn, recursiveInput, expandedPaths, cur,
                   stack, pruned, result>>

\* the directory branch gone wrong: each walk starts from an empty finalFiles
RangeDirResets(path) ==
    /\ pc = "range"
    /\ path \in todo
    /\ IsDir(Abs(path))
    /\ pc' = "walk"
    /\ cur' = path
    /\ stack' = <<path>>
    /\ todo' = todo \ {path}
    /\ finalFiles' = {}
    /\ UNCHANGED <<processorVars, callerVars, runVars, cmdVars, filterVars, nIn, recursiveInput,
                   expandedPaths, pruned, result>>

\* a candidate that is a directory: filepath.WalkDir(path, ...) starts
RangeDir(path) ==
    /\ pc = "range"
    /\ path \in todo
    /\ IsDir(Abs(path))
    /\ pc' = "walk"
    /\ cur' = path
    /\ stack' = <<path>>
    /\ todo' = todo \ {path}
    /\ UNCHANGED <<processorVars, callerVars, runVars, cmdVars, filterVars, nIn, recursiveInput, expandedPaths,
                   pruned, finalFiles, result>>

\* the entries of a directory as WalkDir hands them on, in lexical order
Children(currentPath) ==
    LET names == ReadDir(Abs(currentPath))
    IN  [i \in 1..Len(names) |-> Join(currentPath, names[i])]

\* the callback gone wrong: a directory is entered without asking shouldSkipDir
WalkEnterDirUntested ==
    /\ pc = "walk"
    /\ stack # <<>>
    /\ IsDir(Abs(Head(stack)))
    /\ Abs(Head(stack)) \notin unreadable
    /\ stack' = Children(Head(stack)) \o Tail(stack)
    /\ UNCHANGED <<processorVars, callerVars, runVars, cmdVars, filterVars, pc, nIn, recursiveInput,
                   expandedPaths, todo, cur, pruned, finalFiles, result>>

\* callback on a directory that is kept (the walk's root is never tested): descend
WalkEnterDir ==
    /\ pc = "walk"
    /\ stack # <<>>
    /\ LET currentPath == Head(stack)
       IN  /\ IsDir(Abs(currentPath))
           /\ Abs(currentPath) \notin unreadable
           /\ IF currentPath # cur
              THEN LET r == ShouldSkipDir(State, currentPath)
                   IN  /\ ~r.skip
                       /\ Filtered("shouldSkipDir", currentPath, r, r.skip)
              ELSE UNCHANGED filterVars
           /\ stack' = Children(currentPath) \o Tail(stack)
    /\ UNCHANGED <<processorVars, callerVars, runVars, cmdVars, pc, nIn, recursiveInput, expandedPaths, todo,
                   cur, pruned, finalFiles, result>>

\* callback on a kept directory that os.ReadDir cannot list: WalkDir calls it a second
\* time with the error, the callback returns it, and WalkDir stops and returns it
WalkDirError ==
    /\ pc = "walk"
    /\ stack # <<>>
    /\ LET currentPath == Head(stack)
       IN  /\ IsDir(Abs(currentPath))
           /\ Abs(currentPath) \in unreadable
           /\ IF currentPath # cur
              THEN LET r == ShouldSkipDir(State, currentPath)
                   IN  /\ ~r.skip
                       /\ Filtered("shouldSkipDir", currentPath, r, r.skip)
              ELSE UNCHANGED filterVars
           /\ stack' = <<>>
    /\ UNCHANGED <<processorVars, callerVars, runVars, cmdVars, pc, nIn, recursiveInput, expandedPaths, todo,
                   cur, pruned, finalFiles, result>>

\* the callback gone wrong: a rejected directory is answered with nil, not SkipDir,
\* so WalkDir reads it and hands on its entries
WalkSkipDirDescends ==
    /\ pc = "walk"
    /\ stack # <<>>
    /\ LET currentPath == Head(stack)
           r == ShouldSkipDir(State, currentPath)
       IN  /\ IsDir(Abs(currentPath))
           /\ currentPath # cur
           /\ r.skip
           /\ Filtered("shouldSkipDir", currentPath, r, r.skip)
           /\ pruned' = pruned \cup {currentPath}
           /\ stack' = IF Abs(currentPath) \in unreadable THEN <<>>
                       ELSE Children(currentPath) \o Tail(stack)
    /\ UNCHANGED <<processorVars, callerVars, runVars, cmdVars, pc, nIn, recursiveInput, expandedPaths, todo,
                   cur, finalFiles, result>>

\* callback on a directory that shouldSkipDir rejects: filepath.SkipDir
WalkSkipDir ==
    /\ pc = "walk"
    /\ stack # <<>>
    /\ LET currentPath == Head(stack)
           r == ShouldSkipDir(State, currentPath)
       IN  /\ IsDir(Abs(currentPath))
           /\ currentPath # cur
           /\ r.skip
           /\ Filtered("shouldSkipDir", currentPath, r, r.skip)
           /\ pruned' = pruned \cup {currentPath}
           /\ stack' = Tail(stack)
    /\ UNCHANGED <<processorVars, callerVars, runVars, cmdVars, pc, nIn, recursiveInput, expandedPaths, todo,
                   cur, finalFiles, result>>

\* callback on a file: shouldInclude decides
WalkFile ==
    /\ pc = "walk"
    /\ stack # <<>>
    /\ LET currentPath == Head(stack)
           r == ShouldInclude(State, currentPath)
       IN  /\ ~IsDir(Abs(currentPath))
           /\ Filtered("shouldInclude", currentPath, r, ~r.include)
           /\ finalFiles' = IF r.include THEN finalFiles \cup {currentPath} ELSE finalFiles
           /\ stack' = Tail(stack)
    /\ UNCHANGED <<processorVars, callerVars, runVars, cmdVars, pc, nIn, recursiveInput, expandedPaths, todo,
                   cur, pruned, result>>

\* WalkDir returns; the range loop goes on
WalkReturn ==
    /\ pc = "walk"
    /\ stack = <<>>
    /\ pc' = "range"
    /\ UNCHANGED <<processorVars, callerVars, runVars, cmdVars, filterVars, nIn, recursiveInput, expandedPaths,
                   todo, cur, stack, pruned, finalFiles, result>>

\* every candidate was visited: the files are returned
Return ==
    /\ pc = "range"
    /\ todo = {}
    /\ result' = finalFiles
    /\ pc' = "done"
    /\ UNCHANGED <<processorVars, callerVars, runVars, cmdVars, filterVars, nIn, recursiveInput, expandedPaths,
                   todo, cur, stack, pruned, finalFiles>>

Next ==
    \/ \E path \in InputPatterns : ExpandPath(path)
    \/ \E path \in InputPatterns : InvalidPattern(path)
    \/ StartRange
    \/ \E path \in todo : RangeFile(path)
    \/ \E path \in todo : RangeDir(path)
    \/ WalkEnterDir
    \/ WalkSkipDir
    \/ WalkFile
    \/ WalkReturn
    \/ Return

Spec == Init /\ [][Next]_vars

----------------------------------------------------------------------------
(* getGitignoreMatcher(dir) under concurrent callers of one FileProcessor, *)
(* statement by statement, while .gitignore files may change on disk.      *)

walkVars == <<pc, nIn, recursiveInput, expandedPaths, todo, cur, stack, pruned, finalFiles,
              result, opened, last>>

\* a caller enters getGitignoreMatcher(dir)
Call(c, dir) ==
    /\ callers[c].pc = "idle"
    /\ callers' = [callers EXCEPT ![c] = [IdleCaller EXCEPT !.pc = "lock", !.dir = dir]]
    /\ UNCHANGED <<processorVars, walkVars, runVars, cmdVars, query, ignoreMatcherCache, compiles, mu>>

\* Lock gone wrong: the caller goes on without waiting for the mutex
LockWithoutMutex(c) ==
    /\ callers[c].pc = "lock"
    /\ mu' = c
    /\ callers' = [callers EXCEPT ![c].pc = "lookup"]
    /\ UNCHANGED <<processorVars, walkVars, runVars, cmdVars, query, ignoreMatcherCache, compiles>>

\* p.mu.Lock()
Lock(c) ==
    /\ callers[c].pc = "lock"
    /\ mu = Free
    /\ mu' = c
    /\ callers' = [callers EXCEPT ![c].pc = "lookup"]
    /\ UNCHANGED <<processorVars, walkVars, runVars, cmdVars, query, ignoreMatcherCache, compiles>>

\* matcher, ok := p.ignoreMatcherCache[dir]; found: return matcher, matcher != nil
CacheHit(c) ==
    /\ callers[c].pc = "lookup"
    /\ ignoreMatcherCache[callers[c].dir].present
    /\ callers' = [callers EXCEPT ![c].pc = "unlock",
                                  ![c].matcher = ignoreMatcherCache[callers[c].dir].matcher,
                                  ![c].ok = ~ignoreMatcherCache[callers[c].dir].matcher.nil]
    /\ UNCHANGED <<processorVars, walkVars, runVars, cmdVars, query, ignoreMatcherCache, compiles, mu>>

\* not found: ignore.CompileIgnoreFile reads the directory's .gitignore
CacheMiss(c) ==
    /\ callers[c].pc = "lookup"
    /\ ~ignoreMatcherCache[callers[c].dir].present
    /\ LET m == CompileIgnoreFile(callers[c].dir)
       IN  callers' = [callers EXCEPT ![c].pc = "store", ![c].matcher = m.matcher,
                                      ![c].ok = ~m.err]
    /\ compiles' = [compiles EXCEPT ![callers[c].dir] = @ + 1]
    /\ UNCHANGED <<processorVars, walkVars, runVars, cmdVars, query, ignoreMatcherCache, mu>>

\* p.ignoreMatcherCache[dir] = matcher (nil when the file could not be compiled)
Store(c) ==
    /\ callers[c].pc = "store"
    /\ ignoreMatcherCache' =
           [ignoreMatcherCache EXCEPT ![callers[c].dir] = Entry(callers[c].matcher)]
    /\ callers' = [callers EXCEPT ![c].pc = "unlock"]
    /\ UNCHANGED <<processorVars, walkVars, runVars, cmdVars, query, compiles, mu>>

\* the deferred p.mu.Unlock(); the call returns (matcher, ok)
Unlock(c) ==
    /\ callers[c].pc = "unlock"
    /\ mu' = Free
    /\ callers' = [callers EXCEPT ![c].pc = "idle", ![c].returned = TRUE]
    /\ UNCHANGED <<processorVars, walkVars, runVars, cmdVars, query, ignoreMatcherCache, compiles>>

\* the directories the concurrent callers ask for
CacheDirs == {Cwd, Cwd \o <<"d">>}

\* the environment: a .gitignore is written or removed during the run
EditGitignore(dir) ==
    /\ \E f \in (IF dir = Cwd THEN CwdGitignores ELSE SubGitignores) :
           /\ f # gitignores[dir]
           /\ gitignores' = [gitignores EXCEPT ![dir] = f]
    /\ UNCHANGED <<config, customIgnoreMatcher, unreadable, walkVars, runVars, cmdVars,
                   ignoreMatcherCache, compiles, callerVars>>

InitCache ==
    /\ InitProcessor
    /\ unreadable = {}
    /\ paths = <<>>
    /\ runs = <<>>
    /\ NoCmd
    /\ config = [NoRecursive |-> FALSE, NoGitignore |-> FALSE, NoBinaryCheck |-> FALSE,
                 IgnoreFiles |-> <<>>, ExcludeGlobs |-> <<>>]
    /\ gitignores = [d \in IgnoreDirs |-> Absent]
    /\ pc = "idle"
    /\ NoRun

NextCache ==
    \/ \E c \in Callers, dir \in CacheDirs : Call(c, dir)
    \/ \E c \in Callers : Lock(c)
    \/ \E c \in Callers : CacheHit(c)
    \/ \E c \in Callers : CacheMiss(c)
    \/ \E c \in Callers : Store(c)
    \/ \E c \in Callers : Unlock(c)
    \/ \E dir \in CacheDirs : EditGitignore(dir)

SpecCache == InitCache /\ [][NextCache]_vars

----------------------------------------------------------------------------
(* isGitignored(path), statement by statement: one call after the other on *)
(* one FileProcessor, so that a call finds the cache the earlier calls     *)
(* left.  query.visited lists the directories handed to                    *)
(* getGitignoreMatcher by the call, in order; query.before is the cache as *)
(* the call found it.                                                      *)

\* isGitignored(path) is called: false at once when NoGitignore is set, else absPath
\* and currentDir are set up for the loop
IsGitignoredEnter(path) ==
    /\ query.pc \in {"idle", "returned"}
    /\ query' = IF config.NoGitignore
                THEN [NoQuery EXCEPT !.pc = "returned",
                                     !.before = [cache |-> ignoreMatcherCache,
                                                 compiles |-> compiles]]
                ELSE [pc |-> "loop", absPath |-> Abs(path),
                      currentDir |-> StartDir(Abs(path)), visited |-> <<>>, ret |-> FALSE,
                      before |-> [cache |-> ignoreMatcherCache, compiles |-> compiles]]
    /\ UNCHANGED <<processorVars, walkVars, runVars, cmdVars, ignoreMatcherCache, compiles,
                   mu, callers>>

\* the loop gone wrong: a match is noted but the loop goes on to the root before it
\* returns
IsGitignoredMatchGoesOn ==
    /\ query.pc = "loop"
    /\ LET g == GetGitignoreMatcher(State, query.currentDir)
       IN  /\ g.ok
           /\ MatchesPath(g.matcher, Rel(query.currentDir, query.absPath))
           /\ ignoreMatcherCache' = g.st.cache
           /\ compiles' = g.st.compiles
    /\ query' = IF Dir(query.currentDir) = query.currentDir
                THEN [query EXCEPT !.pc = "returned", !.ret = TRUE,
                                   !.visited = Append(@, query.currentDir)]
                ELSE [query EXCEPT !.currentDir = Dir(query.currentDir),
                                   !.visited = Append(@, query.currentDir)]
    /\ UNCHANGED <<processorVars, walkVars, runVars, cmdVars, mu, callers>>

\* one iteration: currentDir has a matcher and it matches the relative path: return true
IsGitignoredMatch ==
    /\ query.pc = "loop"
    /\ LET g == GetGitignoreMatcher(State, query.currentDir)
       IN  /\ g.ok
           /\ MatchesPath(g.matcher, Rel(query.currentDir, query.absPath))
           /\ ignoreMatcherCache' = g.st.cache
           /\ compiles' = g.st.compiles
    /\ query' = [query EXCEPT !.pc = "returned", !.ret = TRUE,
                              !.visited = Append(@, query.currentDir)]
    /\ UNCHANGED <<processorVars, walkVars, runVars, cmdVars, mu, callers>>

\* the loop gone wrong: after an iteration without a match the next one starts without
\* currentDir = parentDir (a continue in the place of the ascent)
IsGitignoredAscendStays ==
    /\ query.pc = "loop"
    /\ LET g == GetGitignoreMatcher(State, query.currentDir)
       IN  /\ ~(g.ok /\ MatchesPath(g.matcher, Rel(query.currentDir, query.absPath)))
           /\ ignoreMatcherCache' = g.st.cache
           /\ compiles' = g.st.compiles
    /\ Dir(query.currentDir) # query.currentDir
    /\ query' = [query EXCEPT !.visited = IF @ = <<>> THEN <<query.currentDir>> ELSE @]
    /\ UNCHANGED <<processorVars, walkVars, runVars, cmdVars, mu, callers>>

\* one iteration: no matcher or no match, and currentDir has a parent: move up
IsGitignoredAscend ==
    /\ query.pc = "loop"
    /\ LET g == GetGitignoreMatcher(State, query.currentDir)
       IN  /\ ~(g.ok /\ MatchesPath(g.matcher, Rel(query.currentDir, query.absPath)))
           /\ ignoreMatcherCache' = g.st.cache
           /\ compiles' = g.st.compiles
    /\ Dir(query.currentDir) # query.currentDir
    /\ query' = [query EXCEPT !.currentDir = Dir(query.currentDir),
                              !.visited = Append(@, query.currentDir)]
    /\ UNCHANGED <<processorVars, walkVars, runVars, cmdVars, mu, callers>>

\* one iteration: no matcher or no match, and parentDir == currentDir: break, return false
IsGitignoredBreak ==
    /\ query.pc = "loop"
    /\ LET g == GetGitignoreMatcher(State, query.currentDir)
       IN  /\ ~(g.ok /\ MatchesPath(g.matcher, Rel(query.currentDir, query.absPath)))
           /\ ignoreMatcherCache' = g.st.cache
           /\ compiles' = g.st.compiles
    /\ Dir(query.currentDir) = query.currentDir
    /\ query' = [query EXCEPT !.pc = "returned", !.ret = FALSE,
                              !.visited = Append(@, query.currentDir)]
    /\ UNCHANGED <<processorVars, walkVars, runVars, cmdVars, mu, callers>>

InitQuery ==
    /\ InitProcessor
    /\ config \in [NoRecursive : {FALSE}, NoGitignore : BOOLEAN, NoBinaryCheck : {FALSE},
                    IgnoreFiles : {<<>>}, ExcludeGlobs : {<<>>}]
    /\ unreadable = {}
    /\ paths = <<>>
    /\ runs = <<>>
    /\ NoCmd
    /\ pc = "idle"
    /\ NoRun

IsGitignoredStep == IsGitignoredMatch \/ IsGitignoredAscend \/ IsGitignoredBreak

NextQuery ==
    \/ \E path \in Universe : IsGitignoredEnter(path)
    \/ IsGitignoredMatch
    \/ IsGitignoredAscend
    \/ IsGitignoredBreak

\* the loop is sequential code: a call under way takes its next iteration
SpecQuery == InitQuery /\ [][NextQuery]_vars /\ WF_vars(IsGitignoredStep)

----------------------------------------------------------------------------
(* ProcessPaths over a tree in which a directory cannot be listed          *)
(* (permission denied): os.ReadDir fails inside filepath.WalkDir.          *)

\* the directories that may be unreadable: one outside and one inside the working directory
UnreadableChoices == {{<<"o">>}, {Cwd \o <<"d">>}}

\* literal inputs: the parent of the working directory, the working directory, d, a file
WalkErrInputs == {<<"..">>, <<>>, <<"d">>, <<"a">>, <<"[">>}

InitWalkErr ==
    /\ config \in [NoRecursive : {FALSE}, NoGitignore : BOOLEAN, NoBinaryCheck : {FALSE},
                   IgnoreFiles : IgnoreFileChoices, ExcludeGlobs : ExcludeChoices]
    /\ \E c \in CwdGitignores :
           gitignores = [d \in IgnoreDirs |-> IF d = Cwd THEN c ELSE Absent]
    /\ customIgnoreMatcher = New(config)
    /\ ignoreMatcherCache = [d \in AbsDirs |-> NoEntry]
    /\ compiles = [d \in AbsDirs |-> 0]
    /\ opened = {}
    /\ mu = Free
    /\ callers = [c \in Callers |-> IdleCaller]
    /\ query = NoQuery
    /\ unreadable \in UnreadableChoices
    /\ paths = <<>>
    /\ runs = <<>>
    /\ NoCmd
    /\ pc = "expand"
    /\ NoRun

NextWalkErr ==
    \/ \E path \in WalkErrInputs : ExpandPath(path)
    \/ \E path \in WalkErrInputs : InvalidPattern(path)
    \/ StartRange
    \/ \E path \in todo : RangeFile(path)
    \/ \E path \in todo : RangeDir(path)
    \/ WalkEnterDir
    \/ WalkDirError
    \/ WalkSkipDir
    \/ WalkFile
    \/ WalkReturn
    \/ Return

SpecWalkErr == InitWalkErr /\ [][NextWalkErr]_vars

----------------------------------------------------------------------------
(* Several ProcessPaths calls, one after the other, on one FileProcessor   *)
(* and an unchanged filesystem: each call is handed a list of paths, and   *)
(* the matcher cache of the earlier calls is still there in the later ones.*)

\* all lists of at most n elements of S
RECURSIVE ListsUpTo(_, _)
ListsUpTo(S, n) ==
    IF n = 0 THEN {<<>>}
    ELSE LET shorter == ListsUpTo(S, n - 1)
         IN  shorter \cup {Append(l, x) : l \in shorter, x \in S}

Reverse(list) == [i \in 1..Len(list) |-> list[Len(list) + 1 - i]]

\* the list without its invalid glob patterns
WithoutInvalid(list) == SelectSeq(list, LAMBDA path : ~FilepathGlob(path).err)

RunInputs == {<<>>, <<"d">>, <<"..", "o">>, <<"**", "b">>, <<"[">>}

\* the lists a later call is handed: the same paths in another order, the same paths
\* without the invalid ones, or the two paths of a pair one at a time
LaterPaths ==
    IF runs = <<>>
    THEN {Reverse(paths), WithoutInvalid(paths)}
         \cup (IF Len(paths) = 2 THEN {<<paths[1]>>} ELSE {})
    ELSE IF Len(runs) = 1 /\ Len(runs[1].paths) = 2 /\ paths = <<runs[1].paths[1]>>
         THEN {<<runs[1].paths[2]>>}
         ELSE {}

InitRuns ==
    /\ config \in [NoRecursive : {FALSE}, NoGitignore : BOOLEAN, NoBinaryCheck : {FALSE},
                   IgnoreFiles : IgnoreFileChoices, ExcludeGlobs : {<<>>}]
    /\ \E c \in CwdGitignores :
           gitignores = [d \in IgnoreDirs |->
                            IF d = Cwd THEN c
                            ELSE IF d = <<>> THEN File(<<Comment, Line("c")>>)
                            ELSE File(<<Negated("b"), Anchored("a"), DirOnly("d")>>)]
    /\ customIgnoreMatcher = New(config)
    /\ ignoreMatcherCache = [d \in AbsDirs |-> NoEntry]
    /\ compiles = [d \in AbsDirs |-> 0]
    /\ opened = {}
    /\ mu = Free
    /\ callers = [c \in Callers |-> IdleCaller]
    /\ query = NoQuery
    /\ unreadable = {}
    /\ paths \in ListsUpTo(RunInputs, MaxInputs)
    /\ runs = <<>>
    /\ NoCmd
    /\ pc = "expand"
    /\ NoRun

\* first loop: for _, path := range paths
ExpandListed == nIn < Len(paths) /\ ExpandPath(paths[nIn + 1])
InvalidListed == nIn < Len(paths) /\ InvalidPattern(paths[nIn + 1])
StartListed == nIn = Len(paths) /\ StartRange

\* the call has returned; the same processor is called again with another list
CallAgain(next) ==
    /\ pc = "done"
    /\ runs' = Append(runs, [paths |-> paths, result |-> result])
    /\ paths' = next
    /\ pc' = "expand"
    /\ nIn' = 0
    /\ recursiveInput' = FALSE
    /\ expandedPaths' = {}
    /\ todo' = {}
    /\ cur' = <<>>
    /\ stack' = <<>>
    /\ pruned' = {}
    /\ finalFiles' = {}
    /\ result' = {}
    /\ last' = NoCall
    /\ opened' = {}
    /\ UNCHANGED <<processorVars, callerVars, cmdVars, ignoreMatcherCache, compiles>>

NextRuns ==
    \/ ExpandListed
    \/ InvalidListed
    \/ StartListed
    \/ \E path \in todo : RangeFile(path)
    \/ \E path \in todo : RangeDir(path)
    \/ WalkEnterDir
    \/ WalkSkipDir
    \/ WalkFile
    \/ WalkReturn
    \/ Return
    \/ \E next \in LaterPaths : CallAgain(next)

SpecRuns == InitRuns /\ [][NextRuns]_vars

----------------------------------------------------------------------------
(* ProcessPaths with config.NoRecursive set, on a list of paths some of    *)
(* which hold a recursive wildcard that expands to directories.            *)

\* **/d expands to the directories d and d/d; the others hold no wildcard
NoRecursiveInputs == {<<"**", "d">>, <<"..">>, <<>>, <<"a">>, <<"[">>}

InitNoRecursive ==
    /\ config \in [NoRecursive : {TRUE}, NoGitignore : BOOLEAN, NoBinaryCheck : {FALSE},
                    IgnoreFiles : {<<>>}, ExcludeGlobs : ExcludeChoices]
    /\ \E c \in CwdGitignores :
           gitignores = [d \in IgnoreDirs |-> IF d = Cwd THEN c ELSE Absent]
    /\ customIgnoreMatcher = New(config)
    /\ ignoreMatcherCache = [d \in AbsDirs |-> NoEntry]
    /\ compiles = [d \in AbsDirs |-> 0]
    /\ opened = {}
    /\ mu = Free
    /\ callers = [c \in Callers |-> IdleCaller]
    /\ query = NoQuery
    /\ unreadable = {}
    /\ paths \in ListsUpTo(NoRecursiveInputs, MaxInputs)
    /\ runs = <<>>
    /\ NoCmd
    /\ pc = "expand"
    /\ NoRun

NextNoRecursive ==
    \/ ExpandListed
    \/ InvalidListed
    \/ StartListed
    \/ \E path \in todo : RangeFile(path)
    \/ \E path \in todo : RangeDir(path)
    \/ WalkEnterDir
    \/ WalkSkipDir
    \/ WalkFile
    \/ WalkReturn
    \/ Return

SpecNoRecursive == InitNoRecursive /\ [][NextNoRecursive]_vars

----------------------------------------------------------------------------
(* The command (internal/cmd/root.go, RunE): input paths, New,             *)
(* ProcessPaths, sort, and the output loop over the formatter.  Text is a  *)
(* sequence of characters: "x" an ordinary character, "nl" a newline, a    *)
(* name or "/" a piece of a path.                                          *)

\* walker.GetInputPaths(args): (paths, err)
GetInputPaths(a, in) ==
    IF Len(a) > 0 THEN [paths |-> a, err |-> FALSE]
    ELSE IF in.piped
         THEN IF in.err THEN [paths |-> <<>>, err |-> TRUE]
              ELSE [paths |-> [i \in 1..Len(SelectSeq(in.lines, LAMBDA l : ~l.blank)) |->
                                  SelectSeq(in.lines, LAMBDA l : ~l.blank)[i].path],
                    err |-> FALSE]
         ELSE [paths |-> << <<>> >>, err |-> FALSE]

\* config.DefaultTemplate, and config.LoadTemplate(cliTemplate) where no template
\* file exists: the flag if it is not empty, else the default
DefaultTemplate == <<"x", "{path}", "nl", "{content}", "nl", "x", "{path}", "nl", "nl">>
LoadTemplate(cliTemplate) == IF cliTemplate # <<>> THEN cliTemplate ELSE DefaultTemplate

\* os.ReadFile(path): (content, err); the content as far as the output loop can tell
\* files apart: empty, ending in a newline, or not
ReadFile(path) ==
    LET file == Content(Abs(path))
    IN  IF ~file.readable THEN [text |-> <<>>, err |-> TRUE]
        ELSE IF file.size = 0 THEN [text |-> <<>>, err |-> FALSE]
        ELSE IF path[Len(path)] = "c" THEN [text |-> <<"x", "nl">>, err |-> FALSE]
        ELSE [text |-> <<"x">>, err |-> FALSE]

RECURSIVE PathText(_)
\* filepath.ToSlash(relPath) as text
PathText(path) ==
    IF path = <<>> THEN <<>>
    ELSE IF Len(path) = 1 THEN <<path[1]>>
    ELSE <<path[1], "/">> \o PathText(Tail(path))

RECURSIVE Replace(_, _, _)
\* replacer.Replace(f.template): each placeholder replaced, the rest copied
Replace(tmpl, content, relPath) ==
    IF tmpl = <<>> THEN <<>>
    ELSE (CASE Head(tmpl) = "{content}" -> content
            [] Head(tmpl) = "{path}" -> PathText(relPath)
            [] OTHER -> <<Head(tmpl)>>)
         \o Replace(Tail(tmpl), content, relPath)

\* (*Formatter).Format(path): (formatted, err)
Format(tmpl, path) ==
    IF ReadFile(path).err THEN [text |-> <<>>, err |-> TRUE]
    ELSE [text |-> Replace(tmpl, ReadFile(path).text, RelCwd(path)), err |-> FALSE]

\* the orders in which the keys of a map can come out of a range loop
Orders(S) ==
    {order \in [1..Cardinality(S) -> S] :
        \A i, j \in 1..Cardinality(S) : i # j => order[i] # order[j]}

CmdArgs ==
    {<<>>, << <<"a">> >>, << <<"a">>, <<"d">> >>, << <<>>, <<"d">> >>,
     << <<"[">>, <<"c">> >>, << <<"a">>, <<"d", "u">> >>}

CmdStdin ==
    {Terminal, Piped(<<>>), Piped(<<BlankLine>>),
     Piped(<<PathLine(<<"c">>), BlankLine, PathLine(<<"a">>)>>), BrokenPipe}

CmdTemplates == {<<>>, <<"{content}">>, <<"x", "{path}", "nl">>}

CmdIgnoreFiles == {<<>>, <<"ix">>, <<"ix", "i2">>, <<"i1", "ix">>}

\* the command starts: flags parsed, nothing done yet
InitCmd ==
    /\ config \in [NoRecursive : {FALSE}, NoGitignore : {FALSE}, NoBinaryCheck : {FALSE},
                   IgnoreFiles : CmdIgnoreFiles, ExcludeGlobs : {<< <<"d", "d">> >>}]
    /\ gitignores = [d \in IgnoreDirs |-> Absent]
    /\ customIgnoreMatcher = Nil
    /\ ignoreMatcherCache = [d \in AbsDirs |-> NoEntry]
    /\ compiles = [d \in AbsDirs |-> 0]
    /\ opened = {}
    /\ mu = Free
    /\ callers = [c \in Callers |-> IdleCaller]
    /\ query = NoQuery
    /\ unreadable = {}
    /\ paths = <<>>
    /\ runs = <<>>
    /\ args \in CmdArgs
    /\ stdin \in (IF args = <<>> THEN CmdStdin ELSE {Terminal})
    /\ template \in CmdTemplates
    /\ files = <<>>
    /\ fileIndex = 0
    /\ out = <<>>
    /\ exit = "running"
    /\ pc = "input"
    /\ NoRun

stateVars == <<ignoreMatcherCache, compiles, opened, last, nIn, recursiveInput, expandedPaths,
               todo, cur, stack, pruned, finalFiles, result>>

\* 1. paths, err := walker.GetInputPaths(args); an error ends the command
RunGetInputPaths ==
    /\ pc = "input"
    /\ LET r == GetInputPaths(args, stdin)
       IN  IF r.err
           THEN /\ exit' = "error"
                /\ pc' = "exit"
                /\ UNCHANGED paths
           ELSE /\ paths' = r.paths
                /\ pc' = "new"
                /\ UNCHANGED exit
    /\ UNCHANGED <<processorVars, callerVars, stateVars, runs, args, stdin, template, files,
                   fileIndex, out>>

\* 2. proc, err := processor.New(&processor.Config{...}): err is always nil
NewProcessor ==
    /\ pc = "new"
    /\ customIgnoreMatcher' = New(config)
    /\ pc' = "expand"
    /\ UNCHANGED <<config, gitignores, unreadable, callerVars, stateVars, runVars, cmdVars>>

\* 3. files, err := proc.ProcessPaths(paths): the slice built by ranging over finalFiles
ResultSlice(order) ==
    /\ pc = "done"
    /\ files' = order
    /\ pc' = "sort"
    /\ UNCHANGED <<processorVars, callerVars, stateVars, runVars, args, stdin, template,
                   fileIndex, out, exit>>

\* 4. sort.Strings(files)
SortFiles ==
    /\ pc = "sort"
    /\ files' = SortStrings(files)
    /\ fileIndex' = 0
    /\ pc' = "format"
    /\ UNCHANGED <<processorVars, callerVars, stateVars, runVars, args, stdin, template,
                   out, exit>>

\* the output loop gone wrong: the newline is also written after the last file
FormatFileAlwaysNewline ==
    /\ pc = "format"
    /\ fileIndex < Len(files)
    /\ LET formattedOutput == Format(LoadTemplate(template), files[fileIndex + 1])
       IN  out' = IF formattedOutput.err THEN out
                  ELSE out \o formattedOutput.text
                       \o (IF /\ Len(formattedOutput.text) > 0
                              /\ formattedOutput.text[Len(formattedOutput.text)] # "nl"
                           THEN <<"nl">> ELSE <<>>)
    /\ fileIndex' = fileIndex + 1
    /\ UNCHANGED <<processorVars, callerVars, stateVars, runVars, args, stdin, template,
                   files, pc, exit>>

\* 7. one turn of the output loop: a file that cannot be formatted is logged and
\* skipped; else its text is written, and a newline if the text is not empty, does
\* not end in one, and i < len(files)-1
FormatFile ==
    /\ pc = "format"
    /\ fileIndex < Len(files)
    /\ LET formattedOutput == Format(LoadTemplate(template), files[fileIndex + 1])
       IN  out' = IF formattedOutput.err THEN out
                  ELSE out \o formattedOutput.text
                       \o (IF /\ Len(formattedOutput.text) > 0
                              /\ formattedOutput.text[Len(formattedOutput.text)] # "nl"
                              /\ fileIndex < Len(files) - 1
                           THEN <<"nl">> ELSE <<>>)
    /\ fileIndex' = fileIndex + 1
    /\ UNCHANGED <<processorVars, callerVars, stateVars, runVars, args, stdin, template,
                   files, pc, exit>>

\* the loop is over: return nil
Finish ==
    /\ pc = "format"
    /\ fileIndex = Len(files)
    /\ exit' = "ok"
    /\ pc' = "exit"
    /\ UNCHANGED <<processorVars, callerVars, stateVars, runVars, args, stdin, template,
                   files, fileIndex, out>>

NextCmd ==
    \/ RunGetInputPaths
    \/ NewProcessor
    \/ ExpandListed
    \/ InvalidListed
    \/ StartListed
    \/ \E path \in todo : RangeFile(path)
    \/ \E path \in todo : RangeDir(path)
    \/ WalkEnterDir
    \/ WalkSkipDir
    \/ WalkFile
    \/ WalkReturn
    \/ Return
    \/ \E order \in Orders(result) : ResultSlice(order)
    \/ SortFiles
    \/ FormatFile
    \/ Finish

SpecCmd == InitCmd /\ [][NextCmd]_vars

----------------------------------------------------------------------------
(* What the rules say about a path, stated from the configuration and the  *)
(* files on disk alone (no cache, no traversal)                            *)

\* the path matches one of the --exclude globs
MatchesExcludeGlob(path) ==
    \E i \in 1..Len(config.ExcludeGlobs) : PathMatch(config.ExcludeGlobs[i], path).match

\* the custom ignore-file ruleset exists and matches the path relative to the working directory
MatchesCustomIgnore(path) ==
    ~customIgnoreMatcher.nil /\ MatchesPath(customIgnoreMatcher, RelCwd(path))

\* the directories from dir up to the filesystem root
Chain(dir) == {d \in AbsDirs : IsPrefix(d, dir)}

\* the path below dir, as segments; "." for dir itself
Below(dir, abs) == IF abs = dir THEN <<".">> ELSE SubSeq(abs, Len(dir) + 1, Len(abs))

\* some directory on the chain holds a .gitignore whose ruleset matches the path
\* expressed relative to that directory
GitignoreRulesMatch(path) ==
    \E d \in Chain(StartDir(Abs(path))) :
        /\ GitignoreFile(d).present
        /\ MatchesPath(CompileIgnoreLines(GitignoreFile(d).lines), Below(d, Abs(path)))

\* a zero byte occurs among the file's first 1024 bytes
ZeroInFirst1024(path) == \E z \in Content(Abs(path)).zeros : z < 1024

Readable(path) == Content(Abs(path)).readable

\* stages 1-3 exclude the path
ExcludedByRule(path) ==
    \/ MatchesExcludeGlob(path)
    \/ MatchesCustomIgnore(path)
    \/ ~config.NoGitignore /\ GitignoreRulesMatch(path)

\* the path strings of the directories a file lies in, up to the start of its path string
DirsAbove(f) == {SubSeq(f, 1, k) : k \in 1..(Len(f) - 1)}

FilePaths == {f \in Universe : IsFile(Abs(f))}

\* the path string f names an entry at or below the entry the path string c names
Under(c, f) == IsPrefix(c, f) /\ \A i \in (Len(c) + 1)..Len(f) : f[i] # ".."

----------------------------------------------------------------------------
(* Claims *)

\* C1 (as stated): shouldInclude(path) returns true if and only if the path matches
\* no --exclude glob, the custom matcher does not match it, isGitignored is false, and
\* NoBinaryCheck is set or the file has no zero byte in its first 1024 bytes.
C1_IncludeIffNoStageExcludes ==
    last.op = "shouldInclude" =>
        (~last.excluded <=>
            /\ ~ExcludedByRule(last.path)
            /\ (config.NoBinaryCheck \/ ~ZeroInFirst1024(last.path)))

\* C1 (amended): shouldInclude(path) returns true if and only if no stage excludes the
\* path, where the binary stage excludes a file only if it can be opened and read and
\* has a zero byte in its first 1024 bytes.
C1_IncludeIffNoStageExcludesReadable ==
    last.op = "shouldInclude" =>
        (~last.excluded <=>
            /\ ~ExcludedByRule(last.path)
            /\ (config.NoBinaryCheck \/ ~Readable(last.path) \/ ~ZeroInFirst1024(last.path)))

\* an unreadable file with an early zero byte was included with the binary check on
C1_Witness ==
    /\ last.op = "shouldInclude"
    /\ ~last.excluded
    /\ ~config.NoBinaryCheck
    /\ ~Readable(last.path)
    /\ ZeroInFirst1024(last.path)

\* C2: no path that matches an --exclude glob is ever in the result of ProcessPaths,
\* however the path became a candidate.
C2_NoExcludedPathInResult ==
    \A f \in result : ~MatchesExcludeGlob(f)

\* a file matching an --exclude glob and nothing else was a candidate itself, and the
\* run returned other files
C2_Witness ==
    /\ pc = "done"
    /\ result # {}
    /\ config.NoBinaryCheck
    /\ \E c \in expandedPaths :
           /\ IsFile(Abs(c))
           /\ MatchesExcludeGlob(c)
           /\ ~MatchesCustomIgnore(c)
           /\ ~GitignoreRulesMatch(c)

\* C3 (as stated): if a directory D is excluded by a rule, no file inside D at any
\* depth is in the result, for every choice of inputs.
C3_NoFileInsideExcludedDir ==
    pc = "done" =>
        \A f \in result : \A D \in DirsAbove(f) : ~ExcludedByRule(D)

\* C3 (amended): a file inside an excluded directory D is in the result only if D
\* itself, or something inside D, is one of the candidates; a walk that starts above D
\* never yields a file inside D.
C3_NoFileInsideExcludedDirUnlessCandidate ==
    \A f \in result : \A D \in DirsAbove(f) :
        ExcludedByRule(D) => \E c \in expandedPaths : Under(D, c)

\* a walk pruned a directory holding a file that the filter would have accepted
C3_Witness ==
    /\ pc = "done"
    /\ \E D \in pruned : \E f \in FilePaths :
           /\ Under(D, f)
           /\ ~ExcludedByRule(f)
           /\ ~ZeroInFirst1024(f)
           /\ f \notin result

\* C4: with NoRecursive set and no recursive wildcard among the inputs, every file in
\* the result is a candidate itself or a direct child of a candidate directory.
C4_NoRecursiveDirectChildrenOnly ==
    (pc = "done" /\ config.NoRecursive /\ ~recursiveInput) =>
        \A f \in result : \E c \in expandedPaths :
            \/ f = c
            \/ IsDir(Abs(c)) /\ Under(c, f) /\ Len(f) = Len(c) + 1

\* the files a walk from a candidate can reach when stages 1 and 2 exclude no
\* directory on the way
ReachableWithoutGitignore(f) ==
    \E c \in expandedPaths :
        /\ Under(c, f)
        /\ \A D \in DirsAbove(f) :
               Len(D) > Len(c) => ~MatchesExcludeGlob(D) /\ ~MatchesCustomIgnore(D)

\* C5 (as stated): with NoGitignore set, every file under the inputs that matches no
\* --exclude glob and no custom pattern and is not binary is in the result.
C5_NoGitignoreIncludesAll ==
    (pc = "done" /\ config.NoGitignore) =>
        \A f \in FilePaths :
            (/\ \E c \in expandedPaths : Under(c, f)
             /\ ~MatchesExcludeGlob(f)
             /\ ~MatchesCustomIgnore(f)
             /\ ~ZeroInFirst1024(f)) => f \in result

\* C5 (amended): with NoGitignore set, every such file is in the result provided no
\* directory between a candidate and the file matches an --exclude glob or a custom
\* pattern.
C5_NoGitignoreIncludesAllReachable ==
    (pc = "done" /\ config.NoGitignore) =>
        \A f \in FilePaths :
            (/\ ReachableWithoutGitignore(f)
             /\ ~MatchesExcludeGlob(f)
             /\ ~MatchesCustomIgnore(f)
             /\ ~ZeroInFirst1024(f)) => f \in result

\* with NoGitignore set the result holds a file inside a directory that a .gitignore
\* rule matches
C5_Witness ==
    /\ pc = "done"
    /\ config.NoGitignore
    /\ \E f \in result : \E D \in DirsAbove(f) : GitignoreRulesMatch(D)

C7_BinaryIffEarlyZero ==
    (last.op = "shouldInclude" /\ ~ExcludedByRule(last.path)) =>
        /\ ~config.NoBinaryCheck => (last.excluded <=> ZeroInFirst1024(last.path))
        /\ config.NoBinaryCheck => ~last.excluded

\* C7 (amended): a file that passes stages 1-3 is excluded by default exactly when it
\* can be opened and read and a zero byte occurs among its first 1024 bytes; it is
\* included when NoBinaryCheck is set.
C7_BinaryIffEarlyZeroReadable ==
    (last.op = "shouldInclude" /\ ~ExcludedByRule(last.path)) =>
        /\ ~config.NoBinaryCheck =>
               (last.excluded <=> (Readable(last.path) /\ ZeroInFirst1024(last.path)))
        /\ config.NoBinaryCheck => ~last.excluded

\* a readable file whose only zero byte lies at offset 1024 or later was included
\* with the binary check on
C7_Witness ==
    /\ last.op = "shouldInclude"
    /\ ~last.excluded
    /\ ~config.NoBinaryCheck
    /\ Readable(last.path)
    /\ Content(Abs(last.path)).zeros # {}

\* C8: with gitignore support enabled, isGitignored(path) returns true if and only if
\* some directory on the chain from the path's directory to the root has a .gitignore
\* ruleset matching the path relative to it; a deeper .gitignore never un-ignores.
C8_GitignoredIffSomeAncestorMatches ==
    (last.gitCalled /\ ~config.NoGitignore) =>
        (last.ignored <=> GitignoreRulesMatch(last.path))

\* isGitignored returned true for a path that the nearest .gitignore does not match
C8_Witness ==
    /\ last.gitCalled
    /\ ~config.NoGitignore
    /\ last.ignored
    /\ LET start == StartDir(Abs(last.path))
       IN  /\ GitignoreFile(start).present
           /\ ~MatchesPath(CompileIgnoreLines(GitignoreFile(start).lines),
                           Below(start, Abs(last.path)))

\* rel names target from base: base/rel is target ("." when they are the same)
NamesFrom(base, rel, target) ==
    IF rel = <<".">> THEN base = target ELSE Clean(<<>>, base \o rel) = target

\* C9 (as stated): every ruleset is evaluated only against paths inside the subtree of
\* its base directory, expressed relative to it.
C9_RulesetsStayInSubtree ==
    \A e \in last.evals :
        /\ IsPrefix(e.base, e.target)
        /\ NamesFrom(e.base, e.rel, e.target)

\* C9 (amended): every .gitignore ruleset is evaluated only against paths inside the
\* subtree of the directory holding it, expressed relative to it; the custom ruleset is
\* evaluated against every filtered path, expressed relative to the working directory,
\* also when the path lies outside the working directory.
C9_GitignoreRulesetsStayInSubtree ==
    \A e \in last.evals :
        /\ NamesFrom(e.base, e.rel, e.target)
        /\ e.kind = "gitignore" =>
               /\ IsPrefix(e.base, e.target)
               /\ GitignoreFile(e.base).present
        /\ e.kind = "custom" => (e.base = Cwd /\ e.target = Abs(last.path))

\* the custom ruleset excluded a path outside the working directory
C9_Witness ==
    /\ last.stage = 2
    /\ \E e \in last.evals : e.kind = "custom" /\ ~IsPrefix(Cwd, e.target)

\* C10: under any interleaving of callers of getGitignoreMatcher, each directory's
\* .gitignore is read and compiled at most once; an entry of the cache is never
\* replaced or removed, and every caller that returned holds that entry.
C10_CacheEntryWrittenOnce ==
    /\ [](\A d \in AbsDirs : compiles[d] <= 1)
    /\ [](\A c \in Callers :
             callers[c].returned =>
                 /\ ignoreMatcherCache[callers[c].dir].present
                 /\ callers[c].matcher = ignoreMatcherCache[callers[c].dir].matcher
                 /\ callers[c].ok = ~callers[c].matcher.nil)
    /\ [][\A d \in AbsDirs :
             ignoreMatcherCache[d].present => ignoreMatcherCache'[d] = ignoreMatcherCache[d]]_vars

\* two callers returned the same entry for a directory whose .gitignore has changed
\* on disk since it was compiled
C10_Witness ==
    \E c1, c2 \in Callers :
        /\ c1 # c2
        /\ callers[c1].returned /\ callers[c2].returned
        /\ callers[c1].dir = callers[c2].dir
        /\ callers[c1].matcher = callers[c2].matcher
        /\ compiles[callers[c1].dir] = 1
        /\ CompileIgnoreFile(callers[c1].dir).matcher # callers[c1].matcher


----------------------------------------------------------------------------
(* Claims about errors, ordering and output *)

\* every existing file and directory, as an absolute path
Entries == {a \in AbsDirs \cup {Join(d, n) : d \in AbsDirs, n \in AllNames} : Exists(a)}

\* the path strings a walk from candidate c hands to the callback below c
PathsBelow(c) ==
    {c \o SubSeq(a, Len(Abs(c)) + 1, Len(a)) :
        a \in {x \in Entries : IsPrefix(Abs(c), x) /\ x # Abs(c)}}

\* the directories on the way from candidate c down to f: c itself and what lies between
DirsBetween(c, f) == {SubSeq(f, 1, k) : k \in Len(c)..(Len(f) - 1)}

\* the filter keeps f when a walk from c reaches it: no directory below c on the way
\* is excluded, and shouldInclude accepts f
KeptFrom(c, f) ==
    /\ \A D \in DirsBetween(c, f) : D # c => ~ExcludedByRule(D)
    /\ ~ExcludedByRule(f)
    /\ (config.NoBinaryCheck \/ ~Readable(f) \/ ~ZeroInFirst1024(f))

\* C11: when a directory met while walking a candidate cannot be read, only that
\* directory is skipped: every file the filter keeps that does not lie inside an
\* unreadable directory, in the same candidate tree or another, is in the result.
C11_OnlyUnreadableDirSkipped ==
    pc = "done" =>
        \A c \in expandedPaths : \A f \in PathsBelow(c) :
            (/\ IsFile(Abs(f))
             /\ KeptFrom(c, f)
             /\ \A D \in DirsBetween(c, f) : Abs(D) \notin unreadable) => f \in result


\* the most recent earlier call on the processor
PrevRun == runs[Len(runs)]

\* two lists holding the same paths, each as often, in any order
IsPermutation(l1, l2) ==
    /\ Len(l1) = Len(l2)
    /\ \A x \in {l1[i] : i \in 1..Len(l1)} \cup {l2[i] : i \in 1..Len(l2)} :
           Cardinality({i \in 1..Len(l1) : l1[i] = x}) =
               Cardinality({i \in 1..Len(l2) : l2[i] = x})

RECURSIVE SortedOutput(_)
\* the files of a result in increasing order of their path strings
SortedOutput(S) ==
    IF S = {} THEN <<>>
    ELSE LET least == CHOOSE x \in S : \A y \in S \ {x} : StringLess(x, y)
         IN  <<least>> \o SortedOutput(S \ {least})

\* C12: an input list holding an invalid glob pattern gives the same result as the
\* list with the invalid patterns removed; the call returns normally.
C12_InvalidPatternSkipped ==
    (/\ pc = "done"
     /\ runs # <<>>
     /\ paths # PrevRun.paths
     /\ paths = WithoutInvalid(PrevRun.paths)) => result = PrevRun.result

\* a list with an invalid pattern in front of a valid one was resolved, then the valid
\* one alone, and files were returned
C12_Witness ==
    /\ pc = "done"
    /\ runs # <<>>
    /\ Len(PrevRun.paths) = 2
    /\ FilepathGlob(PrevRun.paths[1]).err
    /\ paths = <<PrevRun.paths[2]>>
    /\ result # {}

\* C14: on an unchanged filesystem and configuration the sorted output is the same
\* for every run over the same input patterns, whatever the order of the patterns,
\* the order in which the candidates are visited and the state of the matcher cache.
C14_SortedOutputSameEveryRun ==
    (/\ pc = "done"
     /\ runs # <<>>
     /\ IsPermutation(paths, PrevRun.paths)) =>
        SortedOutput(result) = SortedOutput(PrevRun.result)

\* two patterns were resolved in one order and then in the other, the second time
\* with the matcher cache already filled, and files were returned
C14_Witness ==
    /\ pc = "done"
    /\ runs # <<>>
    /\ paths # PrevRun.paths
    /\ paths = Reverse(PrevRun.paths)
    /\ Cardinality(expandedPaths) > 1
    /\ \E d \in AbsDirs : compiles[d] > 0
    /\ ~config.NoGitignore
    /\ result # {}

\* the inputs of the three calls: two literal directories, neither inside the other,
\* resolved together by the first call and one at a time by the next two
DisjointTreesSplit ==
    /\ Len(runs) = 2
    /\ Len(runs[2].paths) = 1
    /\ Len(paths) = 1
    /\ runs[1].paths = runs[2].paths \o paths
    /\ LET A == Abs(runs[2].paths[1])
           B == Abs(paths[1])
       IN  /\ Exists(A) /\ Exists(B) /\ A \in AbsDirs /\ B \in AbsDirs
           /\ ~IsPrefix(A, B)
           /\ ~IsPrefix(B, A)

\* C18: for two disjoint directory trees, the union of the file sets of the two
\* separate calls equals the file set of the single call over both.
C18_UnionOfDisjointTrees ==
    (pc = "done" /\ DisjointTreesSplit) => runs[1].result = runs[2].result \cup result

\* both trees contributed files
C18_Witness ==
    /\ pc = "done"
    /\ DisjointTreesSplit
    /\ runs[2].result # {}
    /\ result # {}


\* C13: the sequence of file paths handed to the formatter is strictly increasing in
\* the byte order of the path strings: sorted, and no path twice.
C13_FilesStrictlyIncreasing ==
    pc \in {"format", "exit"} =>
        \A i \in 1..(Len(files) - 1) : StringLess(files[i], files[i + 1])

\* two inputs that overlap (one directory inside the other) gave at least three files
C13_Witness ==
    /\ pc = "format"
    /\ Len(files) > 2
    /\ \E c1, c2 \in expandedPaths : c1 # c2 /\ Under(c1, c2)
    /\ \E i \in 1..Len(files) : \A c \in expandedPaths : Under(c, files[i])

\* C15: whenever there is no path argument and no non-blank line on stdin,
\* GetInputPaths returns exactly the current directory.
C15_EmptyInputDefaultsToCurrentDir ==
    (/\ pc # "input"
     /\ args = <<>>
     /\ ~stdin.err
     /\ \A i \in 1..Len(stdin.lines) : stdin.lines[i].blank) => paths = << <<>> >>

\* the text the output loop writes for the i-th file of a list: its formatted text, and
\* a newline if that text is not empty, does not end in a newline, and the file is not
\* the last of the list
EmittedText(list, i) ==
    LET text == Format(LoadTemplate(template), list[i]).text
    IN  text \o (IF text # <<>> /\ text[Len(text)] # "nl" /\ i # Len(list)
                 THEN <<"nl">> ELSE <<>>)

RECURSIVE OutputUpTo(_, _)
\* what the loop has written after the first n files of the list: nothing for a file
\* that cannot be read
OutputUpTo(list, n) ==
    IF n = 0 THEN <<>>
    ELSE OutputUpTo(list, n - 1)
         \o (IF Format(LoadTemplate(template), list[n]).err THEN <<>> ELSE EmittedText(list, n))

\* C16: a file that cannot be read contributes nothing to the output: the output is
\* what the run writes for the other files alone, in order, and the run ends successfully.
C16_UnreadableFileContributesNothing ==
    (pc = "exit" /\ exit # "error") =>
        LET others == SelectSeq(files, Readable)
        IN  /\ exit = "ok"
            /\ out = OutputUpTo(others, Len(others))

RECURSIVE Flatten(_)
Flatten(lists) == IF lists = <<>> THEN <<>> ELSE Head(lists) \o Flatten(Tail(lists))

\* the lines of the custom ignore files that can be opened, in the order of the flags
LoadedLines ==
    LET openable == SelectSeq(config.IgnoreFiles, LAMBDA file : IgnoreFileLines(file).present)
    IN  Flatten([i \in 1..Len(openable) |-> IgnoreFileLines(openable[i]).lines])

\* C17: a custom ignore file that cannot be opened is skipped: New returns a processor
\* whose custom matcher holds the patterns of every file that can be opened, and when
\* no pattern was loaded the custom stage excludes nothing.
C17_UnopenableIgnoreFileSkipped ==
    (pc \notin {"input", "new"} /\ exit # "error") =>
        /\ customIgnoreMatcher.patterns = SelectSeq(LoadedLines, LAMBDA l : l.kind = "pattern")
        /\ customIgnoreMatcher.patterns = <<>> =>
               \A path \in Universe : ~MatchesCustomIgnore(path)

\* the first ignore file could not be opened, and a pattern of the second excludes a path
C17_Witness ==
    /\ pc = "expand"
    /\ Len(config.IgnoreFiles) = 2
    /\ ~IgnoreFileLines(config.IgnoreFiles[1]).present
    /\ \E path \in Universe : MatchesCustomIgnore(path)

C20_StagesShortCircuit ==
    [][/\ last'.stage = 1 => last'.evals = {}
       /\ last'.stage \in {1, 2} =>
              /\ ~last'.gitCalled
              /\ ignoreMatcherCache' = ignoreMatcherCache
              /\ compiles' = compiles
       /\ last'.stage \in 1..3 =>
              /\ opened' = opened
              /\ last'.path \notin opened']_vars

\* a path was excluded at the exclude or custom stage although a .gitignore rule
\* matches it too, and the .gitignore stage would have had to load a matcher for it
C20_Witness ==
    /\ last.op # "none"
    /\ last.stage \in {1, 2}
    /\ ~config.NoGitignore
    /\ GitignoreRulesMatch(last.path)
    /\ \E d \in Chain(StartDir(Abs(last.path))) : ignoreMatcherCache[d] = NoEntry


----------------------------------------------------------------------------
(* Claims about pruning, the upward walk of isGitignored and recursion *)

\* the path string q names an entry strictly below the directory the path string p names
StrictlyUnder(p, q) == Under(p, q) /\ q # p

\* the subdirectories the walk from cur has met and the filter has excluded
PrunedInWalk(S) == {p \in S : StrictlyUnder(cur, p)}

\* C21: once the walk from a starting directory has excluded a subdirectory, no step
\* of that walk lists a child of it, passes a path below it to the filter, opens a
\* file below it or adds a cache entry for a directory below it; the step that
\* excludes an unreadable subdirectory goes on with the next entry, without an error.
C21_PrunedSubtreeNeverVisited ==
    [][(pc = "walk" /\ pc' = "walk") =>
          \A p \in PrunedInWalk(pruned') :
              /\ \A i \in 1..Len(stack') : ~StrictlyUnder(p, stack'[i])
              /\ last'.op # "none" => ~StrictlyUnder(p, last'.path)
              /\ \A f \in opened' \ opened : ~StrictlyUnder(p, f)
              /\ \A d \in AbsDirs :
                     (IsPrefix(Abs(p), d) /\ d # Abs(p) /\ ignoreMatcherCache'[d].present)
                         => ignoreMatcherCache[d].present
              /\ (p \notin pruned /\ Abs(p) \in unreadable) => stack' = Tail(stack)]_vars

\* the walk has excluded a subdirectory that holds entries and cannot be read, and
\* goes on with the entries after it
C21_Witness ==
    /\ pc = "walk"
    /\ stack # <<>>
    /\ last.op = "shouldSkipDir"
    /\ last.excluded
    /\ last.path \in PrunedInWalk(pruned)
    /\ Abs(last.path) \in unreadable
    /\ Len(ReadDir(Abs(last.path))) > 0


\* C22: in a run with NoGitignore set, isGitignored answers false for every path and
\* does no I/O: in every reachable state the matcher cache has no entry, no .gitignore
\* has been compiled, and no call consulted a .gitignore ruleset or excluded its path
\* at the .gitignore stage.
C22_NoGitignoreNoCacheNoRead ==
    config.NoGitignore =>
        /\ \A d \in AbsDirs : ~ignoreMatcherCache[d].present /\ compiles[d] = 0
        /\ ~last.ignored
        /\ last.stage # 3
        /\ \A e \in last.evals : e.kind # "gitignore"

\* with NoGitignore set the filter reached the .gitignore stage for a path that a
\* .gitignore rule on disk matches, and kept the path
C22_Witness ==
    /\ config.NoGitignore
    /\ last.gitCalled
    /\ GitignoreRulesMatch(last.path)
    /\ ~last.excluded
    /\ last.path \in finalFiles


\* no element occurs twice in the sequence
NoRepeat(seq) == \A i, j \in 1..Len(seq) : i # j => seq[i] # seq[j]

RulesetMatches(d, abs) ==
    /\ GitignoreFile(d).present
    /\ MatchesPath(CompileIgnoreLines(GitignoreFile(d).lines), Below(d, abs))

\* C24: within one isGitignored query the directories are consulted from the nearest
\* one towards the root, each the parent of the one before; the query returns at the
\* first directory whose ruleset matches, so no directory consulted before the last
\* one matches; and the query loads or caches the .gitignore of consulted directories
\* only, hence of no directory above the first matching one.
C24_NearestFirstStopsAtMatch ==
    LET v == query.visited
    IN  /\ \A i \in 1..Len(v) :
               IF i = 1 THEN v[i] = StartDir(query.absPath)
               ELSE v[i] = Dir(v[i - 1]) /\ v[i] # v[i - 1]
        /\ \A i \in 1..(Len(v) - 1) : ~RulesetMatches(v[i], query.absPath)
        /\ query.pc = "loop" => \A i \in 1..Len(v) : ~RulesetMatches(v[i], query.absPath)
        /\ (query.pc = "returned" /\ query.ret) => RulesetMatches(v[Len(v)], query.absPath)
        /\ \A d \in AbsDirs :
               (\/ ignoreMatcherCache[d] # query.before.cache[d]
                \/ compiles[d] # query.before.compiles[d]) => \E i \in 1..Len(v) : v[i] = d

\* a query returned true at the second directory it consulted, and a directory above
\* that one holds a .gitignore that is not in the cache
C24_Witness ==
    /\ query.pc = "returned"
    /\ query.ret
    /\ Len(query.visited) > 1
    /\ \E d \in AbsDirs :
           /\ IsPrefix(d, query.visited[Len(query.visited)])
           /\ d # query.visited[Len(query.visited)]
           /\ GitignoreFile(d).present
           /\ ~ignoreMatcherCache[d].present


\* the directories the inputs holding a recursive wildcard expand to
RecursiveCandidates ==
    {c \in expandedPaths :
        /\ IsDir(Abs(c))
        /\ \E i \in 1..Len(paths) :
               /\ ContainsDoubleStar(paths[i])
               /\ ~FilepathGlob(paths[i]).err
               /\ c \in FilepathGlob(paths[i]).matches}

\* C25: with NoRecursive set, a directory that an input with a recursive wildcard
\* expands to is walked at every depth (every file below it that the filter keeps is in
\* the result), while every other file of the result is a candidate itself or a direct
\* child of a candidate directory.
C25_RecursiveWildcardStillRecursive ==
    (pc = "done" /\ config.NoRecursive) =>
        /\ \A c \in RecursiveCandidates : \A f \in PathsBelow(c) :
               (IsFile(Abs(f)) /\ KeptFrom(c, f)) => f \in result
        /\ \A f \in result :
               \/ \E c \in RecursiveCandidates : Under(c, f)
               \/ \E c \in expandedPaths :
                      \/ f = c
                      \/ IsDir(Abs(c)) /\ Under(c, f) /\ Len(f) = Len(c) + 1

=============================================================================
